---------------------------- MODULE Spec2Model ----------------------------
(***************************************************************************)
(* tauriHtmlTransform().transformIndexHtml of vite.config.ts: the ordered  *)
(* pipeline of String.prototype.replace calls that rewrites index.html's   *)
(* CDN references when TAURI_PLATFORM is set.                              *)
(*                                                                         *)
(* A document is a sequence of tokens.  A token is a string of characters  *)
(* that all behave alike under the character classes the regular           *)
(* expressions use: [ \t], \s, [^>] and [^"].  The characters > and " are  *)
(* tokens of their own, so that a class can never consume part of a token. *)
(* A regular expression is the sequence of its elements, each one a set of *)
(* tokens with a quantifier, and is matched by backtracking in the order   *)
(* an ECMAScript engine tries the alternatives.                            *)
(***************************************************************************)
EXTENDS Integers, Sequences, FiniteSets, TLC

VARIABLES TAURI_PLATFORM, html, result, pc

vars == <<TAURI_PLATFORM, html, result, pc>>

---------------------------------------------------------------------------
(* The alphabet. *)

SPACE == " "
TAB == "\t"
NL == "\n"
GT == ">"
QUOTE == "\""

\* What \s matches, and what [ \t] matches.
WhiteSpace == {SPACE, TAB, NL}
BlankTab == {SPACE, TAB}

\* Tokens that differ from a lower-case token only in case (the i flag).
Lower(t) ==
  CASE t = "HREF" -> "href"
    [] t = "SRC" -> "src"
    [] t = "<LINK" -> "<link"
    [] t = "<SCRIPT" -> "<script"
    [] t = "</SCRIPT" -> "</script"
    [] OTHER -> t

---------------------------------------------------------------------------
(* Regular expression elements.  set: the lower-case tokens the element    *)
(* accepts, or, with neg, the tokens it refuses; q: its quantifier.        *)

Lit(t) == [set |-> {t}, neg |-> FALSE, q |-> "one"]
OneOf(S) == [set |-> S, neg |-> FALSE, q |-> "one"]
Star(S) == [set |-> S, neg |-> FALSE, q |-> "star"]
StarNot(S) == [set |-> S, neg |-> TRUE, q |-> "star"]
Plus1(S) == <<OneOf(S), Star(S)>>
Opt(t) == [set |-> {t}, neg |-> FALSE, q |-> "opt"]
LazyAny == [set |-> {}, neg |-> TRUE, q |-> "lazy"]

\* Whether element e accepts token t.  A class is matched on the folded
\* token, as the i flag folds both sides.
Accepts(e, t, ci) ==
  LET u == IF ci THEN Lower(t) ELSE t
  IN  IF e.neg THEN u \notin e.set ELSE u \in e.set

Min(S) == CHOOSE x \in S : \A y \in S : x <= y

Max(S) == CHOOSE x \in S : \A y \in S : x >= y

\* The length of the longest run of tokens from position j that e accepts.
Run(e, s, j, ci) ==
  LET stops == {p \in j..Len(s) : ~Accepts(e, s[p], ci)}
  IN  IF stops = {} THEN Len(s) + 1 - j ELSE Min(stops) - j

\* The element of a set of one element.  In {F(x) : x \in {v}} the value v
\* is worked out once, however often F uses it.
The(S) == CHOOSE y \in S : TRUE

\* A match r of the rest, after an element that starts at j.
Cons(j, r) == The({IF x = <<>> THEN <<>> ELSE <<j>> \o x : x \in {r}})

\* The match a quantified element at j makes, rest[m] being the match of the
\* rest after it has taken m tokens: a greedy element gives back one token
\* at a time until the rest matches, so it keeps the most tokens with which
\* the rest matches; a lazy one takes the fewest.
Pick(rest, lazy, j) ==
  LET ok == {m \in DOMAIN rest : rest[m] # <<>>}
  IN  IF ok = {} THEN <<>>
      ELSE <<j>> \o rest[IF lazy THEN Min(ok) ELSE Max(ok)]

Backtrack(rest, lazy, j) == The({Pick(t, lazy, j) : t \in {rest}})

\* The match of elements k.. of re at position j of s that backtracking
\* finds first: the start of each element's text, then the end of the match;
\* <<>> when there is none.
RECURSIVE MatchFrom(_, _, _, _, _)
MatchFrom(re, ci, k, s, j) ==
  IF k > Len(re) THEN <<j>>
  ELSE LET e == re[k]
           most == IF e.q = "opt"
                   THEN IF j <= Len(s) /\ Accepts(e, s[j], ci) THEN 1 ELSE 0
                   ELSE Run(e, s, j, ci)
       IN  IF e.q = "one"
           THEN IF j <= Len(s) /\ Accepts(e, s[j], ci)
                THEN Cons(j, MatchFrom(re, ci, k + 1, s, j + 1))
                ELSE <<>>
           ELSE Backtrack([m \in 0..most |-> MatchFrom(re, ci, k + 1, s, j + m)],
                          e.q = "lazy", j)

\* The text of a replacement: each item is a literal token sequence or the
\* text of elements from..to of the match ($1, $2).
RECURSIVE Expand(_, _, _)
Expand(repl, s, m) ==
  IF repl = <<>> THEN <<>>
  ELSE LET it == Head(repl)
       IN  (IF it.grp
            THEN SubSeq(s, m[it.from], m[it.to + 1] - 1)
            ELSE it.text) \o Expand(Tail(repl), s, m)

Text(ts) == [grp |-> FALSE, text |-> ts, from |-> 0, to |-> 0]
Group(a, b) == [grp |-> TRUE, text |-> <<>>, from |-> a, to |-> b]

\* String.prototype.replace with a g-flagged regular expression: every
\* leftmost match, scanning on from the end of the one before.
RECURSIVE ReplaceFrom(_, _, _, _, _)

\* at[p]: the match at p, for each position p from i on.
ReplaceAt(s, i, re, ci, repl, at) ==
  LET starts == {p \in DOMAIN at : at[p] # <<>>}
      p == Min(starts)
      m == at[p]
  IN  IF starts = {} THEN SubSeq(s, i, Len(s))
      ELSE SubSeq(s, i, p - 1) \o Expand(repl, s, m)
             \o ReplaceFrom(s, m[Len(m)], re, ci, repl)

ReplaceFrom(s, i, re, ci, repl) ==
  The({ReplaceAt(s, i, re, ci, repl, at) :
         at \in {[p \in i..Len(s) |-> MatchFrom(re, ci, 1, s, p)]}})

Replace(s, re, ci, repl) == ReplaceFrom(s, 1, re, ci, repl)


---------------------------------------------------------------------------
(* The regular expressions of the pipeline, element by element. *)

\* name\s*=\s*"
AttrEq(name) ==
  <<Lit(name), Star(WhiteSpace), Lit("="), Star(WhiteSpace), Lit(QUOTE)>>

\* https?:\/\/
Scheme == OneOf({"http://", "https://"})

\* <tag\s[^>]*
TagOpen(tag) == <<Lit(tag), OneOf(WhiteSpace), StarNot({GT})>>

\* "[^>]*><\/script>
CloseScript == <<Lit(QUOTE), StarNot({GT}), Lit(GT), Lit("</script"), Lit(GT)>>

\* \s*\n?
Trailing == <<Star(WhiteSpace), Opt(NL)>>

\* The pattern of the tag alone, without the white space around it.
TailwindReTagOnly ==
  TagOpen("<script") \o AttrEq("src")
    \o <<Scheme, Lit("cdn.tailwindcss.com"), StarNot({QUOTE})>> \o CloseScript

\* /[ \t]*<script\s[^>]*src\s*=\s*"https?:\/\/cdn\.tailwindcss\.com[^"]*"[^>]*><\/script>\s*\n?/gi
TailwindRe ==
  <<Star(BlankTab)>> \o TagOpen("<script") \o AttrEq("src")
    \o <<Scheme, Lit("cdn.tailwindcss.com"), StarNot({QUOTE})>>
    \o CloseScript \o Trailing

themeCssMap ==
  [f \in {"github-markdown-dark.min.css", "github-markdown.min.css",
          "a11y-dark.min.css", "a11y-light.min.css"} |->
     CASE f = "github-markdown-dark.min.css" -> "./vendor/css/github-markdown-dark.min.css"
       [] f = "github-markdown.min.css" -> "./vendor/css/github-markdown.min.css"
       [] f = "a11y-dark.min.css" -> "./vendor/css/a11y-dark.min.css"
       [] f = "a11y-light.min.css" -> "./vendor/css/a11y-light.min.css"]

\* Object.entries(themeCssMap): the keys in insertion order.
ThemeEntries ==
  <<"github-markdown-dark.min.css", "github-markdown.min.css",
    "a11y-dark.min.css", "a11y-light.min.css">>

\* new RegExp(`href\\s*=\\s*"https?://[^"]*${escapedFile}"`, 'gi'); the
\* escaping makes the file name a literal.
ThemeRe(cdnFile) ==
  AttrEq("href") \o <<Scheme, StarNot({QUOTE}), Lit(cdnFile), Lit(QUOTE)>>

\* `href="${localPath}"`
ThemeRepl(localPath) == <<Text(<<"href", "=", QUOTE, localPath, QUOTE>>)>>

\* /[ \t]*<link\s[^>]*href\s*=\s*"https?:\/\/[^"]*MARKER[^"]*"[^>]*\/?>\s*\n?/gi
LinkMarkerRe(marker) ==
  <<Star(BlankTab)>> \o TagOpen("<link") \o AttrEq("href")
    \o <<Scheme, StarNot({QUOTE}), Lit(marker), StarNot({QUOTE}), Lit(QUOTE),
         StarNot({GT}), Opt("/"), Lit(GT)>>
    \o Trailing

FontAwesomeRe == LinkMarkerRe("font-awesome")

KatexRe == LinkMarkerRe("katex")

\* /[ \t]*<link\s[^>]*href\s*=\s*"https?:\/\/esm\.sh\/react-pdf[^"]*\.css"[^>]*\/?>\s*\n?/gi
ReactPdfRe ==
  <<Star(BlankTab)>> \o TagOpen("<link") \o AttrEq("href")
    \o <<Scheme, Lit("esm.sh/react-pdf"), StarNot({QUOTE}), Lit(".css"),
         Lit(QUOTE), StarNot({GT}), Opt("/"), Lit(GT)>>
    \o Trailing

\* /(<script\s[^>]*src\s*=\s*")https?:\/\/[^"]*\/FILE("[^>]*><\/script>)/gi
\* Elements 1..8 are $1, 9..11 the URL, 12..16 are $2.
ScriptFileRe(file) ==
  TagOpen("<script") \o AttrEq("src")
    \o <<Scheme, StarNot({QUOTE}), Lit(file)>> \o CloseScript

\* The replacement without its $2.
ScriptFileReplNoTail(localPath) == <<Group(1, 8), Text(<<localPath>>)>>

\* '$1./vendor/js/FILE$2'
ScriptFileRepl(localPath) == <<Group(1, 8), Text(<<localPath>>), Group(12, 16)>>

VizRe == ScriptFileRe("/viz.js")

FullRenderRe == ScriptFileRe("/full.render.js")

\* The pattern without its marker: any script with an absolute src.
Html2pdfReAnySrc ==
  <<Star(BlankTab)>> \o TagOpen("<script") \o AttrEq("src")
    \o <<Scheme, StarNot({QUOTE})>> \o CloseScript \o Trailing

\* /[ \t]*<script\s[^>]*src\s*=\s*"https?:\/\/[^"]*html2pdf[^"]*"[^>]*><\/script>\s*\n?/gi
Html2pdfRe ==
  <<Star(BlankTab)>> \o TagOpen("<script") \o AttrEq("src")
    \o <<Scheme, StarNot({QUOTE}), Lit("html2pdf"), StarNot({QUOTE})>>
    \o CloseScript \o Trailing

\* '  <script src="./vendor/js/html2pdf.bundle.min.js"></script>\n'
Html2pdfLocalTag ==
  <<"<script", SPACE, "src", "=", QUOTE, "./vendor/js/html2pdf.bundle.min.js",
    QUOTE, GT, "</script", GT>>

Html2pdfRepl == <<Text(<<SPACE, SPACE>> \o Html2pdfLocalTag \o <<NL>>)>>

\* The pattern with a greedy body, [\s\S]*.
ImportmapReGreedy ==
  <<Star(BlankTab), Lit("<script")>> \o Plus1(WhiteSpace) \o AttrEq("type")
    \o <<Lit("importmap"), Lit(QUOTE), StarNot({}), Lit("</script"), Lit(GT)>>
    \o Trailing

\* /[ \t]*<script\s+type\s*=\s*"importmap"[\s\S]*?<\/script>\s*\n?/gi
ImportmapRe ==
  <<Star(BlankTab), Lit("<script")>> \o Plus1(WhiteSpace) \o AttrEq("type")
    \o <<Lit("importmap"), Lit(QUOTE), LazyAny, Lit("</script"), Lit(GT)>>
    \o Trailing

\* /[ \t]*<!-- NAME -->\s*\n?/g
CommentRe(open) == <<Star(BlankTab), Lit(open), Lit(GT)>> \o Trailing

---------------------------------------------------------------------------
(* The steps of transformIndexHtml, in the order of the code. *)

Delete == <<>>

TailwindStep(s) == Replace(s, TailwindRe, TRUE, Delete)

RECURSIVE ThemeLoop(_, _)
ThemeLoop(s, i) ==
  IF i > Len(ThemeEntries) THEN s
  ELSE ThemeLoop(Replace(s, ThemeRe(ThemeEntries[i]), TRUE,
                         ThemeRepl(themeCssMap[ThemeEntries[i]])), i + 1)

ThemeStep(s) == ThemeLoop(s, 1)

FontAwesomeStep(s) == Replace(s, FontAwesomeRe, TRUE, Delete)

KatexStep(s) == Replace(s, KatexRe, TRUE, Delete)

ReactPdfStep(s) == Replace(s, ReactPdfRe, TRUE, Delete)

VizStep(s) == Replace(s, VizRe, TRUE, ScriptFileRepl("./vendor/js/viz.js"))

FullRenderStep(s) ==
  Replace(s, FullRenderRe, TRUE, ScriptFileRepl("./vendor/js/full.render.js"))

\* The html2pdf rule as a deletion, like the Tailwind rule.
Html2pdfStepDelete(s) == Replace(s, Html2pdfRe, TRUE, Delete)

Html2pdfStep(s) == Replace(s, Html2pdfRe, TRUE, Html2pdfRepl)

ImportmapStep(s) == Replace(s, ImportmapRe, TRUE, Delete)

CommentsStep(s) ==
  Replace(Replace(Replace(s, CommentRe("<!-- React PDF Styles --"), FALSE, Delete),
                  CommentRe("<!-- Graphviz scripts --"), FALSE, Delete),
          CommentRe("<!-- HTML2PDF --"), FALSE, Delete)

\* The link deletions moved before the theme redirect.
AfterDeleteFirst(at) ==
  CASE at = "tailwind" -> "fontawesome"
    [] at = "fontawesome" -> "katex"
    [] at = "katex" -> "reactpdf"
    [] at = "reactpdf" -> "theme"
    [] at = "theme" -> "viz"
    [] at = "viz" -> "fullrender"
    [] at = "fullrender" -> "html2pdf"
    [] at = "html2pdf" -> "importmap"
    [] at = "importmap" -> "comments"
    [] at = "comments" -> "done"

\* The order of the statements: the label of the statement after `at`.
After(at) ==
  CASE at = "tailwind" -> "theme"
    [] at = "theme" -> "fontawesome"
    [] at = "fontawesome" -> "katex"
    [] at = "katex" -> "reactpdf"
    [] at = "reactpdf" -> "viz"
    [] at = "viz" -> "fullrender"
    [] at = "fullrender" -> "html2pdf"
    [] at = "html2pdf" -> "importmap"
    [] at = "importmap" -> "comments"
    [] at = "comments" -> "done"

StepOf(at, s) ==
  CASE at = "tailwind" -> TailwindStep(s)
    [] at = "theme" -> ThemeStep(s)
    [] at = "fontawesome" -> FontAwesomeStep(s)
    [] at = "katex" -> KatexStep(s)
    [] at = "reactpdf" -> ReactPdfStep(s)
    [] at = "viz" -> VizStep(s)
    [] at = "fullrender" -> FullRenderStep(s)
    [] at = "html2pdf" -> Html2pdfStep(s)
    [] at = "importmap" -> ImportmapStep(s)
    [] at = "comments" -> CommentsStep(s)

\* The whole pipeline on one document (the mode flag set).
RECURSIVE RunFrom(_, _)
RunFrom(at, s) ==
  IF at = "done" THEN s
  ELSE The({RunFrom(After(at), r) : r \in {StepOf(at, s)}})

Rewrite(s) == RunFrom("tailwind", s)

---------------------------------------------------------------------------
(* transformIndexHtml, one action per statement. *)

Undefined == "undefined"

\* The test inverted (!== for ===).
EnvUnsetInverted(env) == env # Undefined

\* process.env.TAURI_PLATFORM === undefined
EnvUnset(env) == env = Undefined

\* if (...) return html;  let result = html;
Gate ==
  /\ pc = "gate"
  /\ result' = html
  /\ pc' = IF EnvUnset(TAURI_PLATFORM) THEN "done" ELSE "tailwind"
  /\ UNCHANGED <<TAURI_PLATFORM, html>>

Step(at) ==
  /\ pc = at
  /\ result' = StepOf(at, result)
  /\ pc' = After(at)
  /\ UNCHANGED <<TAURI_PLATFORM, html>>

Tailwind == Step("tailwind")

Theme == Step("theme")

FontAwesome == Step("fontawesome")

Katex == Step("katex")

ReactPdf == Step("reactpdf")

Viz == Step("viz")

FullRender == Step("fullrender")

Html2pdf == Step("html2pdf")

Importmap == Step("importmap")

\* the three comment replaces, then return result
Comments == Step("comments")

Next ==
  \/ Gate
  \/ Tailwind
  \/ Theme
  \/ FontAwesome
  \/ Katex
  \/ ReactPdf
  \/ Viz
  \/ FullRender
  \/ Html2pdf
  \/ Importmap
  \/ Comments

---------------------------------------------------------------------------
(* Input documents: every concatenation of at most MaxFrags fragments of a *)
(* family.  The mode flag is either value the build can start with.        *)

MaxFrags == 3

RECURSIVE Concats(_, _)
Concats(F, n) ==
  IF n = 0 THEN {<<>>}
  ELSE LET shorter == Concats(F, n - 1)
       IN  shorter \cup {d \o f : d \in shorter, f \in F}

Docs(F) == Concats(F, MaxFrags)

InitWith(F) ==
  /\ TAURI_PLATFORM \in {Undefined, "windows"}
  /\ html \in Docs(F)
  /\ result = <<>>
  /\ pc = "gate"

Attr(name, value) == <<name, "=", QUOTE>> \o value \o <<QUOTE>>

\* name = "value"
AttrSpaced(name, value) ==
  <<name, SPACE, "=", SPACE, QUOTE>> \o value \o <<QUOTE>>

\* <script PRE src="URL" POST></script>
ScriptTag(pre, url, post) ==
  <<"<script", SPACE>> \o pre \o Attr("src", url) \o post
    \o <<GT, "</script", GT>>

\* <link rel="stylesheet" href="URL" POST>
LinkTag(url, post) ==
  <<"<link", SPACE>> \o Attr("rel", <<"stylesheet">>) \o <<SPACE>>
    \o Attr("href", url) \o post \o <<GT>>

Indent == <<SPACE, SPACE>>

Newline == <<NL>>

Paragraph == <<"<p", GT, "text", "</p", GT>>

TailwindUrl == <<"https://", "cdn.tailwindcss.com">>

TailwindTag == ScriptTag(<<>>, TailwindUrl, <<>>)

\* A value with > in it, as in data-if="a>b".
GtAttr == <<SPACE>> \o Attr("data-if", <<"a", GT, "b">>)

PlainScript == ScriptTag(<<>>, <<"https://", "cdn.example.com/", "app.js">>, <<>>)

PlainLink == LinkTag(<<"https://", "cdn.example.com/", "style.css">>, <<>>)

ModuleScript ==
  <<"<script", SPACE>> \o Attr("type", <<"module">>) \o <<GT, "</script", GT>>

NoteComment == <<"<!-- note --", GT>>

FragsBase ==
  {Newline, PlainScript, PlainLink, ModuleScript, NoteComment, TailwindTag}

Init == InitWith(FragsBase)

Spec == Init /\ [][Next]_vars

---------------------------------------------------------------------------
(* Reading documents: occurrences of a token sequence, and a document with *)
(* some of its tokens left out.                                            *)

IsAt(sub, d, p) ==
  /\ p >= 1
  /\ p + Len(sub) - 1 <= Len(d)
  /\ SubSeq(d, p, p + Len(sub) - 1) = sub

Occ(sub, d) == Cardinality({p \in 1..Len(d) : IsAt(sub, d, p)})

Has(sub, d) == \E p \in 1..Len(d) : IsAt(sub, d, p)

\* The positions of d inside an occurrence of a sequence of Subs.
Covered(Subs, d) ==
  {p \in 1..Len(d) :
     \E sub \in Subs : \E q \in 1..p : IsAt(sub, d, q) /\ p < q + Len(sub)}

\* The tokens of d at the positions K, in order.
Keep(d, K) ==
  [j \in 1..Cardinality(K) |->
     d[CHOOSE i \in K : Cardinality({x \in K : x <= i}) = j]]

\* d without white space.
Strip(d) == SelectSeq(d, LAMBDA t : t \notin WhiteSpace)

\* d without the occurrences of Subs.
Outside(Subs, d) == Keep(d, (1..Len(d)) \ Covered(Subs, d))

\* d without the occurrences of Subs and without white space.
Without(Subs, d) == Strip(Outside(Subs, d))

\* d with "<tag>" for each occurrence of Tags and without the occurrences of
\* Drop: where the tags stand among the other tokens.
Outline(d, Tags, Drop) ==
  LET starts == {p \in 1..Len(d) : \E sub \in Tags : IsAt(sub, d, p)}
      K == ((1..Len(d)) \ Covered(Tags \cup Drop, d)) \cup starts
  IN  [j \in 1..Cardinality(K) |->
         LET i == CHOOSE i \in K : Cardinality({x \in K : x <= i}) = j
         IN  IF i \in starts THEN "<tag>" ELSE d[i]]

\* The number of lines of d that hold only blanks and tabs.
BlankLines(d) ==
  Cardinality({p \in 1..Len(d) :
     /\ d[p] = NL
     /\ \E q \in (p + 1)..Len(d) :
          /\ d[q] = NL
          /\ \A x \in (p + 1)..(q - 1) : d[x] \in BlankTab})

---------------------------------------------------------------------------
(* The mode gate and unmatched documents. *)

Done == pc = "done"

Rewritten == Done /\ TAURI_PLATFORM # Undefined

\* C1: with TAURI_PLATFORM undefined no statement of the pipeline runs and
\* the document returned is the input document, token for token.
ModeGating ==
  TAURI_PLATFORM = Undefined =>
    /\ pc \in {"gate", "done"}
    /\ Done => result = html

\* A document the pipeline would change is returned as it came.
ModeGatingWitness ==
  /\ TAURI_PLATFORM = Undefined
  /\ Done
  /\ Has(TailwindTag, html)
  /\ result = html

\* The tokens that hold the text of a marker some rule looks for.
MarkerTokens ==
  {"cdn.tailwindcss.com", "font-awesome", "katex", "esm.sh/react-pdf",
   "unpkg.com/react-pdf", "/viz.js", "/full.render.js", "html2pdf",
   "importmap", "<!-- React PDF Styles --", "<!-- Graphviz scripts --",
   "<!-- HTML2PDF --", "./vendor/js/viz.js", "./vendor/js/full.render.js",
   "./vendor/js/html2pdf.bundle.min.js"}
    \cup DOMAIN themeCssMap \cup {themeCssMap[f] : f \in DOMAIN themeCssMap}

NoMarkers(d) == \A p \in 1..Len(d) : d[p] \notin MarkerTokens

\* C7: with the mode flag set, on a document in which no marker occurs every
\* statement of the pipeline leaves the document as it is (an unmatched
\* rule is no error: the next statement runs), and the document returned
\* equals the input.
UnmatchedNoOp ==
  (TAURI_PLATFORM # Undefined /\ NoMarkers(html) /\ pc # "gate") =>
    result = html

\* Scripts and links with absolute URLs, none of them a marker, came through.
UnmatchedNoOpWitness ==
  /\ Rewritten
  /\ NoMarkers(html)
  /\ Has(PlainScript, html)
  /\ Has(PlainLink, html)
  /\ result = html

---------------------------------------------------------------------------
(* Rule order: URLs that two rules could match. *)

CdnHost == "cdn.example.com/"

\* A theme stylesheet under a font-awesome path, and one under a katex path.
ThemeFaLink ==
  LinkTag(<<"https://", CdnHost, "font-awesome", "/", "a11y-dark.min.css">>, <<>>)

ThemeKatexLink ==
  LinkTag(<<"https://", CdnHost, "katex", "/", "github-markdown.min.css">>,
          <<SPACE>> \o Attr("id", <<"markdown-light">>))

ThemeFaLocal == LinkTag(<<"./vendor/css/a11y-dark.min.css">>, <<>>)

ThemeKatexLocal ==
  LinkTag(<<"./vendor/css/github-markdown.min.css">>,
          <<SPACE>> \o Attr("id", <<"markdown-light">>))

\* viz.js under an html2pdf path.
Html2pdfVizScript ==
  ScriptTag(<<>>, <<"https://", CdnHost, "html2pdf", "/viz.js">>, <<>>)

VizLocalScript == ScriptTag(<<>>, <<"./vendor/js/viz.js">>, <<>>)

FontAwesomeLink ==
  LinkTag(<<"https://", CdnHost, "font-awesome", "/all.min.css">>, <<SPACE, "/">>)

Html2pdfUrl == <<"https://", CdnHost, "html2pdf", ".bundle.min.js">>

Html2pdfTag ==
  ScriptTag(<<>>, Html2pdfUrl,
            <<SPACE>> \o Attr("integrity", <<"sha512">>) \o <<SPACE>>
              \o Attr("crossorigin", <<"anonymous">>))

FragsOrder ==
  {Newline, ThemeFaLink, ThemeKatexLink, Html2pdfVizScript, FontAwesomeLink,
   Html2pdfTag}

InitOrder == InitWith(FragsOrder)

SpecOrder == InitOrder /\ [][Next]_vars

\* C10: a link whose href ends in a theme file name and also holds
\* font-awesome or katex comes out redirected to ./vendor/css/ and is not
\* deleted; a script whose src holds html2pdf and ends in /viz.js comes out
\* redirected to ./vendor/js/viz.js and is not replaced by the html2pdf tag,
\* which stands only where a plain html2pdf script stood.
RuleOrder ==
  Rewritten =>
    /\ Occ(ThemeFaLocal, result) = Occ(ThemeFaLink, html)
    /\ Occ(ThemeKatexLocal, result) = Occ(ThemeKatexLink, html)
    /\ Occ(VizLocalScript, result) = Occ(Html2pdfVizScript, html)
    /\ Occ(Html2pdfLocalTag, result) = Occ(Html2pdfTag, html)
    /\ ~Has(FontAwesomeLink, result)

RuleOrderWitness ==
  /\ Rewritten
  /\ Has(ThemeFaLink, html)
  /\ Has(Html2pdfVizScript, html)
  /\ Has(FontAwesomeLink, html)
  /\ Has(ThemeFaLocal, result)
  /\ Has(VizLocalScript, result)

---------------------------------------------------------------------------
(* The redirects: theme style sheets, viz.js and full.render.js. *)

DarkUrl == <<"https://", CdnHost, "a11y-dark.min.css">>

DarkLocalUrl == <<"./vendor/css/a11y-dark.min.css">>

MarkdownUrl == <<"http://", "unpkg.com/", "github-markdown-dark.min.css">>

MarkdownLocalUrl == <<"./vendor/css/github-markdown-dark.min.css">>

VizUrl == <<"https://", CdnHost, "/viz.js">>

VizLocalUrl == <<"./vendor/js/viz.js">>

FullRenderUrl == <<"http://", "unpkg.com/", "/full.render.js">>

FullRenderLocalUrl == <<"./vendor/js/full.render.js">>

IdDisabled == <<SPACE>> \o Attr("id", <<"hljs-dark">>) \o <<SPACE, "disabled">>

\* <link rel="stylesheet" href="https://.../a11y-dark.min.css" id="hljs-dark" disabled>
DarkLink == LinkTag(DarkUrl, IdDisabled)

DarkLinkLocal == LinkTag(DarkLocalUrl, IdDisabled)

\* <link HREF = "http://.../github-markdown-dark.min.css" id="hljs-dark" disabled>
MarkdownLink ==
  <<"<link", SPACE>> \o AttrSpaced("HREF", MarkdownUrl) \o IdDisabled \o <<GT>>

MarkdownLinkLocal ==
  <<"<link", SPACE>> \o Attr("href", MarkdownLocalUrl) \o IdDisabled \o <<GT>>

Crossorigin == <<SPACE>> \o Attr("crossorigin", <<"anonymous">>)

\* <script defer src="https://.../viz.js" crossorigin="anonymous"></script>
VizScript == ScriptTag(<<"defer", SPACE>>, VizUrl, Crossorigin)

VizScriptLocal == ScriptTag(<<"defer", SPACE>>, VizLocalUrl, Crossorigin)

\* <script SRC = "http://.../full.render.js"></script>
FullRenderScript ==
  <<"<script", SPACE>> \o AttrSpaced("SRC", FullRenderUrl)
    \o <<GT, "</script", GT>>

FullRenderScriptLocal ==
  <<"<script", SPACE>> \o AttrSpaced("SRC", FullRenderLocalUrl)
    \o <<GT, "</script", GT>>

FragsRedirect ==
  {Newline, PlainLink, DarkLink, MarkdownLink, VizScript, FullRenderScript}

InitRedirect == InitWith(FragsRedirect)

SpecRedirect == InitRedirect /\ [][Next]_vars

\* The URL values the redirects read and write.
RedirectUrls ==
  {DarkUrl, DarkLocalUrl, MarkdownUrl, MarkdownLocalUrl, VizUrl, VizLocalUrl,
   FullRenderUrl, FullRenderLocalUrl}

\* The href attributes of the theme links, as written and as rewritten.
ThemeHrefs ==
  {Attr("href", DarkUrl), Attr("href", DarkLocalUrl),
   AttrSpaced("HREF", MarkdownUrl), Attr("href", MarkdownLocalUrl)}

ScriptUrls == {VizUrl, VizLocalUrl, FullRenderUrl, FullRenderLocalUrl}

---------------------------------------------------------------------------
(* The import map. *)

\* <script type="importmap">
\* { "imports": { "react": "https://esm.sh/react" } }
\* </script>
ImportmapBlock ==
  <<"<script", SPACE>> \o Attr("type", <<"importmap">>)
    \o <<GT, NL, "{", SPACE>> \o Attr("imports", <<>>) \o <<":", SPACE, "{", NL>>
    \o <<SPACE, SPACE, QUOTE, "react", QUOTE, ":", SPACE, QUOTE, "https://",
         "esm.sh/react", QUOTE, NL, "}", SPACE, "}", NL, "</script", GT>>

\* An opening tag spread over two lines, and a body that holds > and the
\* word importmap:
\* <script
\*   type = "importmap" >{ "a>b": "importmap" }</script>
ImportmapBlockGt ==
  <<"<script", NL, SPACE, SPACE>> \o AttrSpaced("type", <<"importmap">>)
    \o <<SPACE, GT, "{", SPACE, QUOTE, "a", GT, "b", QUOTE, ":", SPACE, QUOTE,
         "importmap", QUOTE, SPACE, "}", "</script", GT>>

FragsImportmap ==
  {Indent, Newline, Paragraph, ModuleScript, ImportmapBlock, ImportmapBlockGt}

InitImportmap == InitWith(FragsImportmap)

SpecImportmap == InitImportmap /\ [][Next]_vars

\* C5: an import map block of several lines, whatever its body holds, is
\* deleted up to its own closing tag, the first one after its opening tag:
\* the output holds no importmap, and read without white space it is the
\* input without the blocks, every paragraph and later script in place.
ImportmapDeleted ==
  Rewritten =>
    /\ Occ(<<"importmap">>, result) = 0
    /\ Strip(result) = Without({ImportmapBlock, ImportmapBlockGt}, html)
    /\ Occ(ModuleScript, result) = Occ(ModuleScript, html)
    /\ Occ(Paragraph, result) = Occ(Paragraph, html)

\* A block was deleted and the module script after it was kept.
ImportmapDeletedWitness ==
  /\ Rewritten
  /\ Has(ImportmapBlock \o ModuleScript, html)
  /\ Has(ImportmapBlockGt, html)
  /\ Has(ModuleScript, result)
  /\ ~Has(<<"importmap">>, result)

---------------------------------------------------------------------------
(* The Tailwind script and the html2pdf script. *)

\* <script src="https://cdn.tailwindcss.com" data-if="a>b"></script>
TailwindTagGt == ScriptTag(<<>>, TailwindUrl, GtAttr)

\* <script defer src="https://cdn.tailwindcss.com?plugins=forms"
\*   crossorigin="anonymous"></script>
TailwindTagAttrs ==
  ScriptTag(<<"defer", SPACE>>, TailwindUrl \o <<"?plugins=forms">>,
            <<NL, SPACE>> \o Crossorigin)

FragsTailwind ==
  {Indent, Newline, Paragraph, TailwindTag, TailwindTagAttrs, TailwindTagGt}

InitTailwind == InitWith(FragsTailwind)

SpecTailwind == InitTailwind /\ [][Next]_vars

Html2pdfTagGt == ScriptTag(<<>>, Html2pdfUrl, GtAttr)

\* <script defer
\*   src = "https://.../html2pdf.bundle.min.js"></script>
Html2pdfTagPre ==
  <<"<script", SPACE, "defer", NL, SPACE, SPACE>>
    \o AttrSpaced("src", Html2pdfUrl) \o <<GT, "</script", GT>>

Html2pdfComment == <<"<!-- HTML2PDF --", GT>>

FragsHtml2pdf ==
  {Indent, Newline, Paragraph, Html2pdfComment, Html2pdfTag, Html2pdfTagPre,
   Html2pdfTagGt}

InitHtml2pdf == InitWith(FragsHtml2pdf)

SpecHtml2pdf == InitHtml2pdf /\ [][Next]_vars

Html2pdfTags == {Html2pdfTag, Html2pdfTagPre, Html2pdfTagGt}

\* The html2pdf script tags of d.
Html2pdfCount(d) ==
  Occ(Html2pdfTag, d) + Occ(Html2pdfTagPre, d) + Occ(Html2pdfTagGt, d)

---------------------------------------------------------------------------
(* Links. *)

\* <link
\*   rel="stylesheet" href="https://.../katex.min.css"
\* >
KatexLink ==
  <<"<link", NL, SPACE, SPACE>> \o Attr("rel", <<"stylesheet">>) \o <<SPACE>>
    \o Attr("href", <<"https://", CdnHost, "katex", ".min.css">>) \o <<NL, GT>>

ReactPdfLink ==
  LinkTag(<<"https://", "esm.sh/react-pdf", "/dist/Page/TextLayer", ".css">>, <<>>)

\* The same style sheet on another host.
ReactPdfUnpkgLink ==
  LinkTag(<<"https://", "unpkg.com/react-pdf", "/dist/Page/TextLayer", ".css">>,
          <<>>)

\* <link data-href="https://.../katex.min.css" href="./katex.css">
DataHrefLink ==
  <<"<link", SPACE, "data-">> \o Attr("href", <<"https://", CdnHost, "katex", ".min.css">>)
    \o <<SPACE>> \o Attr("href", <<"./katex.css">>) \o <<GT>>

FragsLinks ==
  {Newline, FontAwesomeLink, KatexLink, ReactPdfLink, ReactPdfUnpkgLink,
   DataHrefLink}

InitLinks == InitWith(FragsLinks)

SpecLinks == InitLinks /\ [][Next]_vars

---------------------------------------------------------------------------
(* The pipeline on its own output, and script tags in pairs. *)

\* <script src="https://cdn.tailwindcss.com">
TailwindOpen == <<"<script", SPACE>> \o Attr("src", TailwindUrl) \o <<GT>>

ScriptClose == <<"</script", GT>>

FragsAgain ==
  {Newline, PlainScript, TailwindTag, TailwindOpen, ScriptClose,
   Html2pdfComment}

InitAgain == InitWith(FragsAgain)

SpecAgain == InitAgain /\ [][Next]_vars

\* C2: the pipeline applied to a document it has returned returns that
\* document again.
Idempotent == Rewritten => Rewrite(result) = result

\* <script type="importmap">
ImportmapOpen ==
  <<"<script", SPACE>> \o Attr("type", <<"importmap">>) \o <<GT>>

\* <script></script>
EmptyScript == <<"<script", GT, "</script", GT>>

FragsBalance ==
  {Newline, Paragraph, TailwindTag, ImportmapOpen, EmptyScript, ScriptClose}

InitBalance == InitWith(FragsBalance)

SpecBalance == InitBalance /\ [][Next]_vars

\* The number of tokens t among the first n of d.
Count(t, d, n) == Cardinality({p \in 1..n : Lower(d[p]) = t})

\* Every </script closes a <script opened before it, and none stays open.
Balanced(d) ==
  /\ \A n \in 1..Len(d) : Count("</script", d, n) <= Count("<script", d, n)
  /\ Count("</script", d, Len(d)) = Count("<script", d, Len(d))

\* C8: a document whose script tags are balanced comes out with its script
\* tags balanced.
BalancePreserved == (Rewritten /\ Balanced(html)) => Balanced(result)

=============================================================================
